---- MODULE Spec2Model ----
(***************************************************************************)
(* Model of socketcan_interface: the CAN Header/Frame value types          *)
(* (interface.hpp), the hex/string codec and the filter-string parser      *)
(* (string.cpp), and the listener hand-out of CommInterface.               *)
(*                                                                         *)
(* Representation.  A text is a sequence of one-character strings.  A byte *)
(* is a number 0..255.  A 32-bit unsigned value is a record [hi, lo] of    *)
(* two 16-bit halves (value = hi * 65536 + lo), because bit 31 is used by  *)
(* the code (EXTENDED_MASK) and does not fit a model-checker integer.      *)
(***************************************************************************)
EXTENDS Integers, Sequences, FiniteSets, TLC

VARIABLES
    op,         \* name of the codec operation called ("none": no call)
    done,       \* whether the call has returned
    inText,     \* text handed to / produced for the parser
    inParts,    \* the pieces inText was put together from (left, separator, right)
    inHeader,   \* Header argument of the last operation
    inFrame,    \* Frame argument of the last operation
    inBytes,    \* byte buffer argument of the last operation
    inWord,     \* raw 32-bit identifier handed to the Header constructor
    inFlags,    \* lc / pad switches of the last operation
    outHeader,  \* Header returned
    outFrame,   \* Frame returned
    outBytes,   \* [ok, out] returned by hex2buffer
    outFilter,  \* filter object returned by tofilter
    handle,     \* per listener: "none" | "held" | "released" (subscriber's shared_ptr)
    callable,   \* per listener: whether callable_ holds a target
    registry,   \* set of listeners registered in the dispatch path
    pub,        \* the publish in flight: [active, snapshot, todo]
    calls,      \* per listener: number of callback invocations so far
    published   \* number of publish calls started

codecVars == <<op, done, inText, inParts, inHeader, inFrame, inBytes, inWord, inFlags,
               outHeader, outFrame, outBytes, outFilter>>

dispatchVars == <<handle, callable, registry, pub, calls, published>>

vars == <<codecVars, dispatchVars>>

-----------------------------------------------------------------------------
(* 32-bit unsigned arithmetic on [hi, lo] halves *)

Half == 256 * 256

W(h, l) == [hi |-> h, lo |-> l]

RECURSIVE BitAnd(_, _)
BitAnd(a, b) ==
    IF a = 0 \/ b = 0 THEN 0
    ELSE (a % 2) * (b % 2) + 2 * BitAnd(a \div 2, b \div 2)

WAnd(a, b) == W(BitAnd(a.hi, b.hi), BitAnd(a.lo, b.lo))

WOr(a, b) == W(a.hi + b.hi - BitAnd(a.hi, b.hi), a.lo + b.lo - BitAnd(a.lo, b.lo))

WNot(a) == W(Half - 1 - a.hi, Half - 1 - a.lo)

WZero == W(0, 0)

WNonZero(a) == a # WZero

WLeq(a, b) == a.hi < b.hi \/ (a.hi = b.hi /\ a.lo <= b.lo)

WNeg(a) == IF a = WZero THEN WZero
           ELSE IF a.lo = 0 THEN W(Half - a.hi, 0)
           ELSE W(Half - 1 - a.hi, Half - a.lo)

WMax == W(Half - 1, Half - 1)

-----------------------------------------------------------------------------
(* interface.hpp: struct Header *)

ID_MASK == W(8191, 65535)

ERROR_MASK == W(8192, 0)

RTR_MASK == W(16384, 0)

EXTENDED_MASK == W(32768, 0)

StdLimit == 2048

ExtLimit == 536870912

\* Header(unsigned int i, bool extended, bool rtr, bool error): the member
\* initialiser id(i) stores i into the 29-bit bit-field, i.e. i modulo 2^29.
Header(i, extended, rtr, error) ==
    [id          |-> (i.hi % 8192) * Half + i.lo,
     is_error    |-> error,
     is_rtr      |-> rtr,
     is_extended |-> extended]

HeaderDefault == Header(WZero, FALSE, FALSE, FALSE)

isValid(h) == h.id < (IF h.is_extended THEN ExtLimit ELSE StdLimit)

fullid(h) ==
    W((h.id \div Half)
        + (IF h.is_error THEN ERROR_MASK.hi ELSE 0)
        + (IF h.is_rtr THEN RTR_MASK.hi ELSE 0)
        + (IF h.is_extended THEN EXTENDED_MASK.hi ELSE 0),
      h.id % Half)

key(h) == IF h.is_error THEN ERROR_MASK ELSE fullid(h)

MsgHeader(i, rtr) == Header(i, FALSE, rtr, FALSE)

ExtendedHeader(i, rtr) == Header(i, TRUE, rtr, FALSE)

ErrorHeader(i) == Header(i, FALSE, FALSE, TRUE)

-----------------------------------------------------------------------------
(* interface.hpp: struct Frame.  data holds 8 cells; a cell never written  *)
(* is Indeterminate (std::array of unsigned char is not initialised).      *)

Indeterminate == 0 - 1

NoData == [i \in 0..7 |-> Indeterminate]

Frame(h, l) ==
    [id |-> h.id, is_error |-> h.is_error, is_rtr |-> h.is_rtr,
     is_extended |-> h.is_extended, data |-> NoData, dlc |-> l]

HeaderOf(f) ==
    [id |-> f.id, is_error |-> f.is_error, is_rtr |-> f.is_rtr,
     is_extended |-> f.is_extended]

FrameIsValid(f) == f.dlc <= 8 /\ isValid(HeaderOf(f))

-----------------------------------------------------------------------------
(* string.cpp: hex digits *)

DecChars == <<"0", "1", "2", "3", "4", "5", "6", "7", "8", "9">>

LowerChars == <<"a", "b", "c", "d", "e", "f">>

UpperChars == <<"A", "B", "C", "D", "E", "F">>

InSeq(c, s) == \E i \in 1..Len(s) : s[i] = c

IndexIn(c, s) == CHOOSE i \in 1..Len(s) : s[i] = c

hex2dec(h) ==
    IF InSeq(h, DecChars) THEN [ok |-> TRUE, d |-> IndexIn(h, DecChars) - 1]
    ELSE IF InSeq(h, LowerChars) THEN [ok |-> TRUE, d |-> IndexIn(h, LowerChars) - 1 + 10]
    ELSE IF InSeq(h, UpperChars) THEN [ok |-> TRUE, d |-> IndexIn(h, UpperChars) - 1 + 10]
    ELSE [ok |-> FALSE, d |-> 0]

RECURSIVE hex2bufferLoop(_, _, _)
hex2bufferLoop(in, out, i) ==
    IF i >= Len(out) THEN [ok |-> TRUE, out |-> out]
    ELSE LET hi == hex2dec(in[2 * i + 1])
             lo == hex2dec(in[2 * i + 2])
         IN  IF ~hi.ok \/ ~lo.ok THEN [ok |-> FALSE, out |-> out]
             ELSE hex2bufferLoop(in, [out EXCEPT ![i + 1] = (hi.d * 16 + lo.d) % 256], i + 1)

hex2buffer(in_raw, pad) ==
    IF Len(in_raw) % 2 # 0 /\ ~pad THEN [ok |-> FALSE, out |-> <<>>]
    ELSE LET in == IF Len(in_raw) % 2 # 0 THEN <<"0">> \o in_raw ELSE in_raw
         IN  hex2bufferLoop(in, [k \in 1..(Len(in) \div 2) |-> 0], 0)

dec2hex(d, lc) ==
    IF d < 10 THEN [ok |-> TRUE, h |-> DecChars[d + 1]]
    ELSE IF d < 16 /\ lc THEN [ok |-> TRUE, h |-> LowerChars[d - 10 + 1]]
    ELSE IF d < 16 /\ ~lc THEN [ok |-> TRUE, h |-> UpperChars[d - 10 + 1]]
    ELSE [ok |-> FALSE, h |-> "?"]

\* byte2hex that forgets the forced leading digit
byte2hexNoPad(d, pad, lc) ==
    LET hi == d \div 16
        s1 == IF hi # 0 THEN <<dec2hex(hi, lc).h>> ELSE <<>>
    IN  s1 \o <<dec2hex(d % 16, lc).h>>

byte2hex(d, pad, lc) ==
    LET hi == d \div 16
        s1 == IF hi # 0 \/ pad THEN <<dec2hex(hi, lc).h>> ELSE <<>>
    IN  s1 \o <<dec2hex(d % 16, lc).h>>

RECURSIVE buffer2hexLoop(_, _, _, _)
buffer2hexLoop(in, lc, i, s) ==
    IF i > Len(in) THEN s
    ELSE LET b == byte2hex(in[i], TRUE, lc)
         IN  IF b = <<>> THEN b ELSE buffer2hexLoop(in, lc, i + 1, s \o b)

buffer2hex(in, lc) == buffer2hexLoop(in, lc, 1, <<>>)

-----------------------------------------------------------------------------
(* string.cpp: header text *)

Nibbles(v) ==
    <<v.hi \div 4096, (v.hi \div 256) % 16, (v.hi \div 16) % 16, v.hi % 16,
      v.lo \div 4096, (v.lo \div 256) % 16, (v.lo \div 16) % 16, v.lo % 16>>

RECURSIVE StripZeros(_)
StripZeros(ds) ==
    IF ds # <<>> /\ ds[1] = 0 THEN StripZeros(Tail(ds)) ELSE ds

RECURSIVE PadLeft(_, _, _)
PadLeft(s, width, fill) ==
    IF Len(s) >= width THEN s ELSE PadLeft(<<fill>> \o s, width, fill)

\* operator<< of an unsigned int under std::hex: minimal digits, "0" for zero
HexOut(v, lc) ==
    LET ds == StripZeros(Nibbles(v))
        sig == IF ds = <<>> THEN <<0>> ELSE ds
    IN  [i \in 1..Len(sig) |-> dec2hex(sig[i], lc).h]

tostringHeader(h, lc) ==
    LET digits == HexOut(WAnd(fullid(h), WNot(EXTENDED_MASK)), lc)
    IN  IF h.is_extended THEN PadLeft(digits, 8, "0") ELSE digits

RECURSIVE SkipSpaces(_)
SkipSpaces(s) ==
    IF s # <<>> /\ s[1] = " " THEN SkipSpaces(Tail(s)) ELSE s

RECURSIVE HexPrefix(_)
HexPrefix(s) ==
    IF s # <<>> /\ hex2dec(s[1]).ok THEN <<hex2dec(s[1]).d>> \o HexPrefix(Tail(s))
    ELSE <<>>

\* value of a digit string as unsigned int; more than 32 bits saturates
DigitsToWord(ds) ==
    LET sig == StripZeros(ds)
        n == PadLeft(sig, 8, 0)
    IN  IF Len(sig) > 8 THEN WMax
        ELSE W(((n[1] * 16 + n[2]) * 16 + n[3]) * 16 + n[4],
               ((n[5] * 16 + n[6]) * 16 + n[7]) * 16 + n[8])

\* stream << std::hex << s; stream >> h : formatted extraction of an unsigned
\* int in base 16: leading blanks skipped, optional sign, optional 0x prefix,
\* the longest run of hex digits; no digit at all leaves 0.
tohex(s) ==
    LET a == SkipSpaces(s)
        negative == a # <<>> /\ a[1] = "-"
        b == IF a # <<>> /\ a[1] \in {"+", "-"} THEN Tail(a) ELSE a
        c == IF Len(b) >= 2 /\ b[1] = "0" /\ b[2] \in {"x", "X"}
             THEN SubSeq(b, 3, Len(b)) ELSE b
        ds == HexPrefix(c)
        v == DigitsToWord(ds)
    IN  IF ds = <<>> THEN WZero
        ELSE IF negative /\ Len(StripZeros(ds)) <= 8 THEN WNeg(v)
        ELSE v

\* toheader whose 8-character rule ignores the size of the id
toheaderLengthOnly(s) ==
    LET h == tohex(s)
        id == WAnd(h, ID_MASK)
    IN  Header(id,
               WNonZero(WAnd(h, EXTENDED_MASK)) \/ Len(s) = 8,
               WNonZero(WAnd(h, RTR_MASK)),
               WNonZero(WAnd(h, ERROR_MASK)))

toheader(s) ==
    LET h == tohex(s)
        id == WAnd(h, ID_MASK)
    IN  Header(id,
               WNonZero(WAnd(h, EXTENDED_MASK))
                   \/ (Len(s) = 8 /\ ~(id.hi = 0 /\ id.lo < StdLimit)),
               WNonZero(WAnd(h, RTR_MASK)),
               WNonZero(WAnd(h, ERROR_MASK)))

-----------------------------------------------------------------------------
(* string.cpp: frame text *)

npos == 0 - 1

\* std::string::find_first_of: 0-based position of the first character of s
\* that is in chars, npos when there is none
find_first_of(s, chars) ==
    IF \E i \in 1..Len(s) : s[i] \in chars
    THEN (CHOOSE i \in 1..Len(s) :
              s[i] \in chars /\ \A j \in 1..(i - 1) : s[j] \notin chars) - 1
    ELSE npos

\* std::string::substr(pos, n) with n = npos meaning "to the end"
substr(s, pos, n) ==
    IF n = npos \/ pos + n >= Len(s) THEN SubSeq(s, pos + 1, Len(s))
    ELSE SubSeq(s, pos + 1, pos + n)

tostringFrame(f, lc) ==
    LET s == [i \in 1..f.dlc |-> f.data[i - 1]]
    IN  tostringHeader(HeaderOf(f), lc) \o <<"#">> \o buffer2hex(s, lc)

Sentinel == Frame(MsgHeader(W(0, 4095), FALSE), 0)

\* toframe that cuts an over-long payload to 8 bytes instead of rejecting it
toframeTruncating(s) ==
    LET sep == find_first_of(s, {"#"})
    IN  IF sep = npos THEN Sentinel
        ELSE LET header == toheader(substr(s, 0, sep))
                 frame == Frame(header, 0)
                 dec == IF isValid(header)
                        THEN hex2buffer(substr(s, sep + 1, npos), FALSE)
                        ELSE [ok |-> FALSE, out |-> <<>>]
                 buffer == IF Len(dec.out) > 8 THEN SubSeq(dec.out, 1, 8) ELSE dec.out
             IN  IF isValid(header) /\ dec.ok
                 THEN [frame EXCEPT
                          !.data = [i \in 0..7 |->
                                       IF i < Len(buffer) THEN buffer[i + 1]
                                       ELSE frame.data[i]],
                          !.dlc = Len(buffer)]
                 ELSE frame

toframe(s) ==
    LET sep == find_first_of(s, {"#"})
    IN  IF sep = npos THEN Sentinel
        ELSE LET header == toheader(substr(s, 0, sep))
                 frame == Frame(header, 0)
                 dec == IF isValid(header)
                        THEN hex2buffer(substr(s, sep + 1, npos), FALSE)
                        ELSE [ok |-> FALSE, out |-> <<>>]
                 buffer == dec.out
             IN  IF isValid(header) /\ dec.ok
                 THEN IF Len(buffer) > 8 THEN Sentinel
                      ELSE [frame EXCEPT
                               !.data = [i \in 0..7 |->
                                            IF i < Len(buffer) THEN buffer[i + 1]
                                            ELSE frame.data[i]],
                               !.dlc = Len(buffer)]
                 ELSE frame

-----------------------------------------------------------------------------
(* filter objects (filter.hpp) and string.cpp: tofilter *)

MASK_RELAXED == ID_MASK

FrameMaskFilter(can_id, mask, invert) ==
    [kind |-> "mask", first |-> can_id, second |-> mask, invert |-> invert]

FrameRangeFilter(min_id, max_id, invert) ==
    [kind |-> "range", first |-> min_id, second |-> max_id, invert |-> invert]

NullFilter == [kind |-> "null", first |-> WZero, second |-> WZero, invert |-> FALSE]

\* matches(frame) of a filter object
pass(filter, frame) ==
    LET k == fullid(HeaderOf(frame))
        hit == IF filter.kind = "mask"
               THEN WAnd(k, filter.second) = WAnd(filter.first, filter.second)
               ELSE WLeq(filter.first, k) /\ WLeq(k, filter.second)
    IN  hit # filter.invert

\* tofilter whose inverting cases break before setting invert
tofilterNoInvert(s) ==
    LET delim == find_first_of(s, {":", "~", "-", "_"})
        type == IF delim # npos THEN s[delim + 1] ELSE ":"
        second == IF delim # npos THEN tohex(substr(s, delim + 1, npos)) ELSE MASK_RELAXED
        first == fullid(toheader(substr(s, 0, delim)))
    IN  CASE type \in {"~", ":"} -> FrameMaskFilter(first, second, FALSE)
          [] type \in {"_", "-"} -> FrameRangeFilter(first, second, FALSE)
          [] OTHER -> NullFilter

tofilter(s) ==
    LET delim == find_first_of(s, {":", "~", "-", "_"})
        type == IF delim # npos THEN s[delim + 1] ELSE ":"
        second == IF delim # npos THEN tohex(substr(s, delim + 1, npos)) ELSE MASK_RELAXED
        first == fullid(toheader(substr(s, 0, delim)))
    IN  CASE type = "~" -> FrameMaskFilter(first, second, TRUE)
          [] type = ":" -> FrameMaskFilter(first, second, FALSE)
          [] type = "_" -> FrameRangeFilter(first, second, TRUE)
          [] type = "-" -> FrameRangeFilter(first, second, FALSE)
          [] OTHER -> NullFilter

-----------------------------------------------------------------------------
(* Inputs of the codec operations *)

MaxHdrLen == 2

MaxBufLen == 2

MaxPayloadBytes == 9

MaxDlc == 8

RECURSIVE SeqsUpTo(_, _)
SeqsUpTo(S, n) ==
    IF n = 0 THEN {<<>>}
    ELSE LET shorter == SeqsUpTo(S, n - 1)
         IN  shorter \cup {Append(s, c) : s \in shorter, c \in S}

PatternBytes(n, b0, step) == [i \in 1..n |-> (b0 + (i - 1) * step) % 256]

PatternStarts == {0, 9, 222}

PatternSteps == {0, 1, 47}

SampleBytes == {0, 9, 10, 15, 16, 159, 160, 255}

Buffers ==
    {b \in SeqsUpTo(SampleBytes, MaxBufLen) : b # <<>>}
        \cup {<<b>> : b \in 0..255}
        \cup {PatternBytes(n, b0, st) : n \in 1..MaxDlc, b0 \in PatternStarts, st \in PatternSteps}

SampleIds == {0, 1, 291, 2047, 2048, 4095, 4919, 65535, 65536, 268435456, 536870911}

Headers ==
    [id : SampleIds, is_error : BOOLEAN, is_rtr : BOOLEAN, is_extended : BOOLEAN]

ValidHeaders == {h \in Headers : isValid(h)}

FrameWith(h, bytes) ==
    [Frame(h, Len(bytes)) EXCEPT
        !.data = [i \in 0..7 |-> IF i < Len(bytes) THEN bytes[i + 1] ELSE Indeterminate]]

Payloads ==
    {PatternBytes(n, b0, st) : n \in 0..MaxDlc, b0 \in PatternStarts, st \in PatternSteps}

ValidFrames == {FrameWith(h, b) : h \in ValidHeaders, b \in Payloads}

SampleWords ==
    {W(h, l) : h \in {0, 1, 8191, 8192, 8193, 16384, 32768, 40960, 65535},
               l \in {0, 1, 2047, 2048, 65535}}

HdrAlphabet == {"0", "1", "7", "8", "F", "f", "G", " ", "+", "-", "x"}

LongHeaderTexts ==
    {<<a, "0", "0", "0", "0", b, c, d>> :
        a \in {"0", "1", "2", "4", "6", "8", "A", "c"},
        b \in {"0", "7", "8"}, c \in {"0", "F"}, d \in {"0", "F"}}
      \cup {<<"0", "0", "0", "7", "F", "F">>, <<"0", "0", "0", "0", "0", "0", "7", "F", "F">>,
            <<"1", "2", "3", "4", "5", "6", "7", "8", "9">>, <<"1", "A", "3">>,
            <<"1", "2", "3">>, <<"0", "x", "7", "F", "F">>, <<"-", "0", "0", "0", "0", "0", "0", "1">>,
            <<"1", "3", "3", "7">>, <<"8", "0", "0", "0", "1", "3", "3", "7">>,
            <<"8", "0", "0">>, <<"F", "F", "F">>, <<"f", "f", "f", "f", "f", "f", "f", "f">>}

HeaderTexts == SeqsUpTo(HdrAlphabet, MaxHdrLen) \cup LongHeaderTexts

FrameHdrAlphabet == {"0", "7", "f", "G", "-", " "}

FrameHeaderTexts == SeqsUpTo(FrameHdrAlphabet, MaxHdrLen) \cup LongHeaderTexts

PayloadTails ==
    {<<>>, <<"1">>, <<"G", "G">>, <<"1", "G">>, <<"G", "1">>, <<"#">>, <<" ", "1">>}

PayloadTexts ==
    {buffer2hex(PatternBytes(n, b0, 47), lc) \o tail :
        n \in 0..MaxPayloadBytes, b0 \in {222}, lc \in BOOLEAN, tail \in PayloadTails}

FilterIdTexts ==
    {<<>>, <<"1", "2", "3">>, <<"1", "0", "0">>, <<"2", "0", "0">>, <<"7", "F", "F">>,
     <<"G", "G">>, <<"0">>, <<"0", "0", "0", "0", "0", "1", "2", "3">>,
     <<"0", "0", "0", "0", "0", "8", "0", "0">>, <<"8", "0", "0", "0", "0", "1", "2", "3">>,
     <<"4", "0", "0", "0", "0", "1", "2", "3">>, <<"z">>, <<" ", "1">>}

FilterValueTexts ==
    {<<>>, <<"7", "F", "F">>, <<"2", "0", "0">>, <<"1", "0", "0">>, <<"0">>, <<"F", "F">>,
     <<"7", "f", "0">>, <<"1", "F", "F", "F", "F", "F", "F", "F">>,
     <<"F", "F", "F", "F", "F", "F", "F", "F">>, <<"G">>, <<"8", "0", "0", "0", "0", "2", "0", "0">>}

FilterSeps == {":", "~", "-", "_"}

NoSep == "none"

ProbeIds == {0, 255, 256, 257, 291, 292, 511, 512, 513, 1827, 2047, 2048, 65827}

ProbeFrames ==
    {Frame(h, 0) : h \in [id : ProbeIds, is_error : {FALSE}, is_rtr : BOOLEAN,
                          is_extended : BOOLEAN]}

-----------------------------------------------------------------------------
(* The codec operations.  The initial state holds one pending call, an     *)
(* operation name with its arguments; the operation's action runs it.      *)

NoFlags == [lc |-> FALSE, pad |-> FALSE, extended |-> FALSE, rtr |-> FALSE, error |-> FALSE]

NoParts == <<<<>>, NoSep, <<>>>>

NoBytes == [ok |-> FALSE, out |-> <<>>]

NoFrame == Frame(HeaderDefault, 0)

Pending(o, text, parts, h, f, b, w, fl) ==
    /\ op = o
    /\ inText = text
    /\ inParts = parts
    /\ inHeader = h
    /\ inFrame = f
    /\ inBytes = b
    /\ inWord = w
    /\ inFlags = fl

NothingReturned ==
    /\ done = FALSE
    /\ outHeader = HeaderDefault
    /\ outFrame = NoFrame
    /\ outBytes = NoBytes
    /\ outFilter = NullFilter

JoinText(left, sep, right) == IF sep = NoSep THEN left \o right ELSE left \o <<sep>> \o right

CodecInit ==
    /\ NothingReturned
    /\ \/ \E i \in SampleWords, x \in BOOLEAN, r \in BOOLEAN, e \in BOOLEAN :
            Pending("Header", <<>>, NoParts, HeaderDefault, NoFrame, <<>>, i,
                    [NoFlags EXCEPT !.extended = x, !.rtr = r, !.error = e])
       \/ \E h \in ValidHeaders, lc \in BOOLEAN :
            Pending("headerRoundTrip", <<>>, NoParts, h, NoFrame, <<>>, WZero,
                    [NoFlags EXCEPT !.lc = lc])
       \/ \E s \in HeaderTexts :
            Pending("toheader", s, NoParts, HeaderDefault, NoFrame, <<>>, WZero, NoFlags)
       \/ \E f \in ValidFrames, lc \in BOOLEAN :
            Pending("frameRoundTrip", <<>>, NoParts, HeaderOf(f), f, <<>>, WZero,
                    [NoFlags EXCEPT !.lc = lc])
       \/ \E h \in FrameHeaderTexts, sep \in {"#", NoSep}, p \in PayloadTexts :
            /\ sep = NoSep => \A i \in 1..Len(p) : p[i] # "#"
            /\ Pending("toframe", JoinText(h, sep, p), <<h, sep, p>>, HeaderDefault, NoFrame,
                       <<>>, WZero, NoFlags)
       \/ \E b \in Buffers, lc \in BOOLEAN, pad \in BOOLEAN :
            Pending("hexRoundTrip", <<>>, NoParts, HeaderDefault, NoFrame, b, WZero,
                    [NoFlags EXCEPT !.lc = lc, !.pad = pad])
       \/ \E id \in FilterIdTexts, sep \in FilterSeps \cup {NoSep}, v \in FilterValueTexts :
            /\ sep = NoSep => v = <<>>
            /\ Pending("tofilter", JoinText(id, sep, v), <<id, sep, v>>, HeaderDefault, NoFrame,
                       <<>>, WZero, NoFlags)

CodecIdle ==
    /\ NothingReturned
    /\ Pending("none", <<>>, NoParts, HeaderDefault, NoFrame, <<>>, WZero, NoFlags)

Call(o) == ~done /\ op = o /\ done' = TRUE

Args == <<op, inParts, inHeader, inFrame, inBytes, inWord, inFlags>>

ConstructHeader ==
    /\ Call("Header")
    /\ outHeader' = Header(inWord, inFlags.extended, inFlags.rtr, inFlags.error)
    /\ UNCHANGED <<Args, inText, outFrame, outBytes, outFilter, dispatchVars>>

HeaderRoundTrip ==
    /\ Call("headerRoundTrip")
    /\ inText' = tostringHeader(inHeader, inFlags.lc)
    /\ outHeader' = toheader(inText')
    /\ UNCHANGED <<Args, outFrame, outBytes, outFilter, dispatchVars>>

ParseHeader ==
    /\ Call("toheader")
    /\ outHeader' = toheader(inText)
    /\ UNCHANGED <<Args, inText, outFrame, outBytes, outFilter, dispatchVars>>

FrameRoundTrip ==
    /\ Call("frameRoundTrip")
    /\ inText' = tostringFrame(inFrame, inFlags.lc)
    /\ outFrame' = toframe(inText')
    /\ UNCHANGED <<Args, outHeader, outBytes, outFilter, dispatchVars>>

ParseFrame ==
    /\ Call("toframe")
    /\ outFrame' = toframe(inText)
    /\ UNCHANGED <<Args, inText, outHeader, outBytes, outFilter, dispatchVars>>

HexRoundTrip ==
    /\ Call("hexRoundTrip")
    /\ inText' = buffer2hex(inBytes, inFlags.lc)
    /\ outBytes' = hex2buffer(inText', inFlags.pad)
    /\ UNCHANGED <<Args, outHeader, outFrame, outFilter, dispatchVars>>

BuildFilter ==
    /\ Call("tofilter")
    /\ outFilter' = tofilter(inText)
    /\ UNCHANGED <<Args, inText, outHeader, outFrame, outBytes, dispatchVars>>

-----------------------------------------------------------------------------
(* interface.hpp: Listener and the listener hand-out of CommInterface /    *)
(* StateInterface.  The registry behind createMsgListener is not part of   *)
(* these sources; its steps follow the dispatch contract: publish works on *)
(* a snapshot of the registered listeners and looks at each listener's     *)
(* handle at the moment it is about to deliver.                            *)

MaxListeners == 2

MaxPublish == 2

Listeners == 1..MaxListeners

NoPublish == [active |-> FALSE, snapshot |-> {}, todo |-> {}]

DispatchInit ==
    /\ handle = [l \in Listeners |-> "none"]
    /\ callable = [l \in Listeners |-> FALSE]
    /\ registry = {}
    /\ pub = NoPublish
    /\ calls = [l \in Listeners |-> 0]
    /\ published = 0

\* Listener::operator()(u): if (callable_) callable_(u)
ListenerCall(l) ==
    calls' = IF callable[l] THEN [calls EXCEPT ![l] = @ + 1] ELSE calls

\* a check made at subscribe time only: the listener was once handed out
IsLiveOnceSubscribed(l) == handle[l] # "none"

\* publish-time check: is the listener's owning handle still held?
IsLive(l) == handle[l] = "held"

\* createMsgListener(delegate) / createStateListener(delegate): never fails,
\* returns the owning handle
createMsgListener ==
    \E l \in Listeners, c \in BOOLEAN :
        /\ handle[l] = "none"
        /\ handle' = [handle EXCEPT ![l] = "held"]
        /\ callable' = [callable EXCEPT ![l] = c]
        /\ registry' = registry \cup {l}
        /\ UNCHANGED <<pub, calls, published, codecVars>>

\* the subscriber drops the handle; the registration leaves the dispatch
\* path at once (eager) or stays behind as a stale entry (lazy purge)
ReleaseHandle ==
    \E l \in Listeners, eager \in BOOLEAN :
        /\ handle[l] = "held"
        /\ handle' = [handle EXCEPT ![l] = "released"]
        /\ registry' = IF eager THEN registry \ {l} ELSE registry
        /\ UNCHANGED <<callable, pub, calls, published, codecVars>>

PublishBegin ==
    /\ ~pub.active
    /\ published < MaxPublish
    /\ published' = published + 1
    /\ pub' = [active |-> TRUE, snapshot |-> registry, todo |-> registry]
    /\ UNCHANGED <<handle, callable, registry, calls, codecVars>>

PublishDeliver ==
    \E l \in pub.todo :
        /\ pub.active
        /\ pub' = [pub EXCEPT !.todo = @ \ {l}]
        /\ IF IsLive(l)
           THEN ListenerCall(l) /\ UNCHANGED registry
           ELSE calls' = calls /\ registry' = registry \ {l}
        /\ UNCHANGED <<handle, callable, published, codecVars>>

PublishEnd ==
    /\ pub.active
    /\ pub.todo = {}
    /\ pub' = NoPublish
    /\ UNCHANGED <<handle, callable, registry, calls, published, codecVars>>

-----------------------------------------------------------------------------
(* Specifications *)

Init == CodecInit /\ DispatchInit

DispatchStart == CodecIdle /\ DispatchInit

Next ==
    \/ ConstructHeader
    \/ HeaderRoundTrip
    \/ ParseHeader
    \/ FrameRoundTrip
    \/ ParseFrame
    \/ HexRoundTrip
    \/ BuildFilter

Spec == Init /\ [][Next]_vars

DispatchNext ==
    \/ createMsgListener
    \/ ReleaseHandle
    \/ PublishBegin
    \/ PublishDeliver
    \/ PublishEnd

DispatchSpec == DispatchStart /\ [][DispatchNext]_vars

-----------------------------------------------------------------------------
(* Claims *)

Returned(o) == done /\ op = o

AllHex(s) == \A i \in 1..Len(s) : hex2dec(s[i]).ok

SameFrame(g, f) ==
    /\ HeaderOf(g) = HeaderOf(f)
    /\ g.dlc = f.dlc
    /\ \A i \in 0..7 : i < f.dlc => g.data[i] = f.data[i]

IsSentinel(f) ==
    /\ f.id = 4095
    /\ ~f.is_extended /\ ~f.is_rtr /\ ~f.is_error
    /\ f.dlc = 0

\* C1: for every valid frame f, toframe(tostring(f)) has the id, the flags,
\* the dlc and the first dlc payload bytes of f.
C1_FrameRoundTrip ==
    Returned("frameRoundTrip") => SameFrame(outFrame, inFrame)

\* C2: for every valid header h, standard or extended, toheader(tostring(h))
\* equals h in id and in all three flags.
C2_HeaderRoundTrip ==
    Returned("headerRoundTrip") => outHeader = inHeader

\* the case C3 speaks of: 8 hex digits, bit 31 clear, decoded id below 2^11
EightDigitsSmallId ==
    /\ Returned("toheader")
    /\ Len(inText) = 8
    /\ AllHex(inText)
    /\ hex2dec(inText[1]).d < 8
    /\ outHeader.id < StdLimit

LongPayload ==
    /\ inParts[2] = "#"
    /\ AllHex(inParts[3])
    /\ Len(inParts[3]) % 2 = 0
    /\ Len(inParts[3]) \div 2 > MaxDlc

NoHash == \A i \in 1..Len(inText) : inText[i] # "#"

\* C4 as stated: a text without '#', or with a payload half decoding to more
\* than 8 bytes, parses to the sentinel (standard, id 0xfff, dlc 0, invalid),
\* whatever the header half is.
C4_SentinelWhateverHeader ==
    (Returned("toframe") /\ (NoHash \/ LongPayload))
        => (IsSentinel(outFrame) /\ ~FrameIsValid(outFrame))

\* C4 amended: a text without '#', or with a header half that parses to a
\* valid header and a payload half decoding to more than 8 bytes, parses to
\* the sentinel; with a header half that parses to an invalid header the
\* result is that header with dlc 0, invalid as well.
C4_SentinelForValidHeader ==
    /\ (Returned("toframe") /\ (NoHash \/ (LongPayload /\ isValid(toheader(inParts[1])))))
        => (IsSentinel(outFrame) /\ ~FrameIsValid(outFrame))
    /\ (Returned("toframe") /\ LongPayload /\ ~isValid(toheader(inParts[1])))
        => (/\ HeaderOf(outFrame) = toheader(inParts[1])
            /\ outFrame.dlc = 0
            /\ ~FrameIsValid(outFrame))

C4_Witness ==
    /\ Returned("toframe")
    /\ LongPayload
    /\ inParts[1] = <<"1", "2", "3">>
    /\ Len(inParts[3]) = 18
    /\ IsSentinel(outFrame)

\* the payload half of a frame text that is malformed
MalformedPayload ==
    /\ inParts[2] = "#"
    /\ (~AllHex(inParts[3]) \/ Len(inParts[3]) % 2 # 0)

\* C5: a text with '#' and a malformed payload half (non-hex character or odd
\* length) parses to a frame for which isValid() is false.
C5_MalformedPayloadInvalid ==
    (Returned("toframe") /\ MalformedPayload) => ~FrameIsValid(outFrame)

\* what C6 says a filter "<id><sep><value>" answers for frame f
Expected(sep, reference, value, f) ==
    LET k == fullid(HeaderOf(f))
        mask == WAnd(k, value) = WAnd(reference, value)
        range == WLeq(reference, k) /\ WLeq(k, value)
    IN  CASE sep = ":" -> mask
          [] sep = "~" -> ~mask
          [] sep = "-" -> range
          [] sep = "_" -> ~range

StdFrame(i) == Frame(MsgHeader(W(0, i), FALSE), 0)

FilterText(t) == Returned("tofilter") /\ inText = t

\* C6: the filter built from "<id><sep><value>" has its reference from the
\* header parse of <id>, its second value from the hex parse of <value>, and
\* kind and inversion from the separator alone: ':' mask, '~' inverted mask,
\* '-' range, '_' inverted range.  "123:7FF" passes 0x123 and not 0x124,
\* "123~7FF" the opposite, "100-200" exactly the ids in [0x100, 0x200],
\* "100_200" exactly the ids outside.
C6_FilterGrammar ==
    /\ (Returned("tofilter") /\ inParts[2] \in FilterSeps)
        => (/\ outFilter.kind = (IF inParts[2] \in {":", "~"} THEN "mask" ELSE "range")
            /\ outFilter.invert = (inParts[2] \in {"~", "_"})
            /\ \A f \in ProbeFrames :
                  pass(outFilter, f)
                      = Expected(inParts[2], fullid(toheader(inParts[1])),
                                 tohex(inParts[3]), f))
    /\ FilterText(<<"1", "2", "3", ":", "7", "F", "F">>)
        => (pass(outFilter, StdFrame(291)) /\ ~pass(outFilter, StdFrame(292)))
    /\ FilterText(<<"1", "2", "3", "~", "7", "F", "F">>)
        => (~pass(outFilter, StdFrame(291)) /\ pass(outFilter, StdFrame(292)))
    /\ FilterText(<<"1", "0", "0", "-", "2", "0", "0">>)
        => \A i \in ProbeIds : pass(outFilter, StdFrame(i)) = (256 <= i /\ i <= 512)
    /\ FilterText(<<"1", "0", "0", "_", "2", "0", "0">>)
        => \A i \in ProbeIds : pass(outFilter, StdFrame(i)) = ~(256 <= i /\ i <= 512)

C6_Witness ==
    /\ FilterText(<<"1", "2", "3", "~", "7", "F", "F">>)
    /\ outFilter.kind = "mask"
    /\ outFilter.invert
    /\ ~pass(outFilter, StdFrame(291))
    /\ pass(outFilter, StdFrame(292))

\* C7: a filter string with no separator and no parseable hex header text
\* (empty, or without any hex digit) yields a parse error, here the only
\* failure value the return type has (a null filter), never a default filter.
C7_BadFilterSignalled ==
    (Returned("tofilter") /\ inParts[2] = NoSep
        /\ \A i \in 1..Len(inText) : ~hex2dec(inText[i]).ok)
        => outFilter.kind = "null"

\* C8: once a listener's handle is released, no step invokes its callback
\* again: not a later publish, not a publish that was already under way.
C8_NoCallAfterRelease ==
    [][\A l \in Listeners : handle[l] = "released" => calls'[l] = calls[l]]_vars

C8_Witness ==
    \E l \in Listeners :
        /\ handle[l] = "released"
        /\ callable[l]
        /\ pub.active
        /\ l \in pub.snapshot \ pub.todo
        /\ calls[l] = 0

\* C9: hex2buffer(buffer2hex(b, lc), pad) succeeds and returns b, and the
\* text has exactly two digits per byte, for every non-empty b, lc and pad.
C9_HexRoundTrip ==
    Returned("hexRoundTrip")
        => (/\ Len(inText) = 2 * Len(inBytes)
            /\ outBytes.ok
            /\ outBytes.out = inBytes)

C9_Witness ==
    /\ Returned("hexRoundTrip")
    /\ inBytes = <<9, 160>>
    /\ ~inFlags.pad
    /\ inFlags.lc
    /\ inText = <<"0", "9", "a", "0">>
    /\ outBytes.ok

\* whether a 32-bit identifier fits the width its extended flag selects
Fits(i, extended) ==
    IF extended THEN i.hi < 8192 ELSE i.hi = 0 /\ i.lo < StdLimit

\* C10: Header(i, extended, rtr, error) is valid exactly when i fits its
\* width: i < 2^11 when not extended, i < 2^29 when extended.
C10_ValidIffFits ==
    Returned("Header") => (isValid(outHeader) <=> Fits(inWord, inFlags.extended))

====
